---------------------------- MODULE Spec2Model ----------------------------
(***************************************************************************)
(* Model of src/utils/ai.js: the skill extractor (extractSkillsFromText,   *)
(* calculateConfidence, getSkillContext) and the match scorer              *)
(* (calculateMatchScore and its four sub-scores).                          *)
(*                                                                         *)
(* Strings are sequences of one-character strings, so that toLowerCase,    *)
(* String.prototype.includes and the regular expressions are computed      *)
(* character by character.  JavaScript numbers are exact rationals n/d     *)
(* together with NaN and +-Infinity; IEEE-754 rounding is not modelled.    *)
(* Dates are whole days, so the milliseconds of a year (line 152) become   *)
(* DaysPerYear.  A call that raises a TypeError yields Throw.  Texts are   *)
(* ASCII, for which toLowerCase and the i flag of a pattern agree.         *)
(***************************************************************************)
EXTENDS Integers, Sequences, FiniteSets, TLC

VARIABLES text, skill, user, job, now, op, score, skills

vars == <<text, skill, user, job, now, op, score, skills>>

-----------------------------------------------------------------------------
(* JavaScript numbers *)

Abs(x) == IF x < 0 THEN -x ELSE x

RECURSIVE Gcd(_, _)
Gcd(a, b) == IF b = 0 THEN a ELSE Gcd(b, a % b)

NaN == [k |-> "NaN", n |-> 0, d |-> 1]
Infinity(sign) == [k |-> "inf", n |-> sign, d |-> 1]
Throw == [k |-> "throw", n |-> 0, d |-> 1]

\* the rational n/d in lowest terms, d > 0
Num(n, d) ==
  LET g == Gcd(Abs(n), Abs(d))
      s == IF d < 0 THEN -1 ELSE 1
  IN [k |-> "num", n |-> s * (n \div g), d |-> s * (d \div g)]

IntNum(i) == Num(i, 1)

IsNum(a) == a.k = "num"

\* a < b as JavaScript evaluates it: false when either side is NaN
Lt(a, b) ==
  CASE a.k = "NaN" \/ b.k = "NaN" -> FALSE
    [] a.k = "inf" /\ b.k = "inf" -> a.n < b.n
    [] a.k = "inf" -> a.n < 0
    [] b.k = "inf" -> b.n > 0
    [] OTHER -> a.n * b.d < b.n * a.d

Le(a, b) == a.k # "NaN" /\ b.k # "NaN" /\ ~Lt(b, a)
Ge(a, b) == Le(b, a)

Add(a, b) ==
  CASE a.k = "NaN" \/ b.k = "NaN" -> NaN
    [] a.k = "inf" /\ b.k = "inf" -> IF a.n = b.n THEN a ELSE NaN
    [] a.k = "inf" -> a
    [] b.k = "inf" -> b
    [] OTHER -> Num(a.n * b.d + b.n * a.d, a.d * b.d)

Neg(a) == IF a.k = "NaN" THEN NaN ELSE [a EXCEPT !.n = -a.n]

Sub(a, b) == Add(a, Neg(b))

Sign(a) == IF a.n < 0 THEN -1 ELSE IF a.n > 0 THEN 1 ELSE 0

Mul(a, b) ==
  CASE a.k = "NaN" \/ b.k = "NaN" -> NaN
    [] a.k = "inf" \/ b.k = "inf" ->
         IF Sign(a) * Sign(b) = 0 THEN NaN ELSE Infinity(Sign(a) * Sign(b))
    [] OTHER -> Num(a.n * b.n, a.d * b.d)

Div(a, b) ==
  CASE a.k = "NaN" \/ b.k = "NaN" -> NaN
    [] a.k = "inf" /\ b.k = "inf" -> NaN
    [] a.k = "inf" -> Infinity(IF Sign(b) < 0 THEN -a.n ELSE a.n)
    [] b.k = "inf" -> IntNum(0)
    [] b.n = 0 -> IF a.n = 0 THEN NaN ELSE Infinity(Sign(a))
    [] OTHER -> Num(a.n * b.d, a.d * b.n)

\* Math.max and Math.min: NaN when either argument is NaN
MathMax(a, b) ==
  IF a.k = "NaN" \/ b.k = "NaN" THEN NaN ELSE IF Lt(a, b) THEN b ELSE a

MathMin(a, b) ==
  IF a.k = "NaN" \/ b.k = "NaN" THEN NaN ELSE IF Lt(b, a) THEN b ELSE a

-----------------------------------------------------------------------------
(* Strings *)

UpperAlpha == <<"A","B","C","D","E","F","G","H","I","J","K","L","M","N","O","P","Q","R","S","T","U","V","W","X","Y","Z">>
LowerAlpha == <<"a","b","c","d","e","f","g","h","i","j","k","l","m","n","o","p","q","r","s","t","u","v","w","x","y","z">>
Digits == <<"0","1","2","3","4","5","6","7","8","9">>

Range(s) == {s[i] : i \in DOMAIN s}

UpperChars == Range(UpperAlpha)
LowerOf ==
  [c \in UpperChars |-> LowerAlpha[CHOOSE i \in DOMAIN UpperAlpha : UpperAlpha[i] = c]]

LowerChar(c) == IF c \in UpperChars THEN LowerOf[c] ELSE c

toLowerCase(s) == [i \in DOMAIN s |-> LowerChar(s[i])]

\* \w of the regular expressions
WordChars == Range(UpperAlpha) \cup Range(LowerAlpha) \cup Range(Digits) \cup {"_"}
IsWordChar(c) == c \in WordChars

\* sub occurs in s at position i (1-based)
OccursAt(s, sub, i) ==
  /\ i >= 1
  /\ i + Len(sub) - 1 <= Len(s)
  /\ \A j \in 1..Len(sub) : s[i + j - 1] = sub[j]

\* String.prototype.includes
includes(s, sub) == \E i \in 1..(Len(s) + 1) : OccursAt(s, sub, i)

\* an optional field: present with value v, or absent (undefined)
Some(v) == [present |-> TRUE, v |-> v]
None == [present |-> FALSE, v |-> <<>>]
OrEmpty(f) == IF f.present THEN f.v ELSE <<>>

SeqsUpTo(S, n) == UNION {[1..k -> S] : k \in 0..n}

-----------------------------------------------------------------------------
(* Match scorer *)

\* calculateSkillsMatch: userSkills is a sequence of [name], requiredSkills
\* a sequence of [name, mandatory]
RECURSIVE SumWeights(_, _, _)
SumWeights(requiredSkills, userSkillNames, matchedOnly) ==
  IF requiredSkills = <<>> THEN 0
  ELSE LET reqSkill == Head(requiredSkills)
           weight == IF reqSkill.mandatory THEN 2 ELSE 1
           counted == ~matchedOnly \/ toLowerCase(reqSkill.name) \in userSkillNames
       IN (IF counted THEN weight ELSE 0)
            + SumWeights(Tail(requiredSkills), userSkillNames, matchedOnly)

\* mutant: a required name matches a user skill that contains it
calculateSkillsMatch_Substring(userSkills, requiredSkills) ==
  IF Len(userSkills) = 0 \/ Len(requiredSkills) = 0 THEN IntNum(0)
  ELSE LET matches(r) == \E i \in DOMAIN userSkills :
                           includes(toLowerCase(userSkills[i].name), toLowerCase(r.name))
           weight(r) == IF r.mandatory THEN 2 ELSE 1
           sum[n \in 0..Len(requiredSkills)] ==
             IF n = 0 THEN <<0, 0>>
             ELSE <<sum[n - 1][1] + (IF matches(requiredSkills[n])
                                       THEN weight(requiredSkills[n]) ELSE 0),
                    sum[n - 1][2] + weight(requiredSkills[n])>>
       IN Num(sum[Len(requiredSkills)][1], sum[Len(requiredSkills)][2])

calculateSkillsMatch(userSkills, requiredSkills) ==
  IF Len(userSkills) = 0 \/ Len(requiredSkills) = 0 THEN IntNum(0)
  ELSE LET userSkillNames == {toLowerCase(userSkills[i].name) : i \in DOMAIN userSkills}
           matchCount == SumWeights(requiredSkills, userSkillNames, TRUE)
           totalWeight == SumWeights(requiredSkills, userSkillNames, FALSE)
       IN IF totalWeight > 0 THEN Num(matchCount, totalWeight) ELSE IntNum(0)

DaysPerYear == 365

\* dates: a valid Date at day t, an Invalid Date, or an absent field
Date(t) == [k |-> "date", t |-> t]
InvalidDate == [k |-> "invalid", t |-> 0]
AbsentDate == [k |-> "absent", t |-> 0]

\* one step of the reduce at lines 149-154
ExperienceYears(exp, today) ==
  LET endDate == IF exp.endDate.k = "absent" THEN Date(today) ELSE exp.endDate
      \* new Date(undefined) is an Invalid Date
      startDate == IF exp.startDate.k = "absent" THEN InvalidDate ELSE exp.startDate
  IN IF endDate.k = "invalid" \/ startDate.k = "invalid" THEN NaN
     ELSE Num(endDate.t - startDate.t, DaysPerYear)

RECURSIVE TotalYears(_, _)
TotalYears(userExperience, today) ==
  IF userExperience = <<>> THEN IntNum(0)
  ELSE LET n == Len(userExperience)
       IN Add(TotalYears(SubSeq(userExperience, 1, n - 1), today),
              MathMax(IntNum(0), ExperienceYears(userExperience[n], today)))

\* the own properties of the experienceRanges object literal
experienceRanges ==
  [entry |-> <<0, 2>>, mid |-> <<2, 5>>, senior |-> <<5, 10>>, executive |-> <<10, 100>>]

\* property names every object literal inherits from Object.prototype: looking
\* one up yields a function or object that is truthy and not iterable
ObjectPrototypeKeys ==
  {"constructor", "toString", "valueOf", "hasOwnProperty", "__proto__"}

calculateExperienceMatch(u, j, today) ==
  LET userExperience == OrEmpty(u.experience)
  IN IF Len(userExperience) = 0 THEN Num(1, 2)
     ELSE IF j.experienceLevel \in ObjectPrototypeKeys THEN Throw
     ELSE LET totalYears == TotalYears(userExperience, today)
              range == IF j.experienceLevel \in DOMAIN experienceRanges
                         THEN experienceRanges[j.experienceLevel]
                         ELSE <<0, 100>>
              minYears == IntNum(range[1])
              maxYears == IntNum(range[2])
          IN IF Ge(totalYears, minYears) /\ Le(totalYears, maxYears) THEN IntNum(1)
             ELSE IF Lt(totalYears, minYears)
               THEN MathMax(IntNum(0), Div(totalYears, minYears))
             ELSE MathMax(Num(7, 10),
                          Sub(IntNum(1), Div(Sub(totalYears, maxYears), maxYears)))

\* mutant: job.location is lower-cased before job.remote is tested
calculateLocationMatch_ReadsFirst(u, j) ==
  IF ~j.location.present THEN Throw
  ELSE IF j.remote THEN IntNum(1)
  ELSE LET preferredLocations ==
             IF u.preferences.present THEN OrEmpty(u.preferences.locations) ELSE <<>>
           jobLocation == toLowerCase(j.location.v)
           hasMatch == \E i \in DOMAIN preferredLocations :
                         \/ includes(jobLocation, toLowerCase(preferredLocations[i]))
                         \/ includes(toLowerCase(preferredLocations[i]), jobLocation)
       IN IF Len(preferredLocations) = 0 THEN Num(1, 2)
          ELSE IF hasMatch THEN IntNum(1) ELSE Num(3, 10)

calculateLocationMatch(u, j) ==
  IF j.remote THEN IntNum(1)
  ELSE LET preferredLocations ==
             IF u.preferences.present THEN OrEmpty(u.preferences.locations) ELSE <<>>
       IN IF Len(preferredLocations) = 0 THEN Num(1, 2)
          \* job.location.toLowerCase() on an absent location
          ELSE IF ~j.location.present THEN Throw
          ELSE LET jobLocation == toLowerCase(j.location.v)
                   hasMatch == \E i \in DOMAIN preferredLocations :
                                 \/ includes(jobLocation, toLowerCase(preferredLocations[i]))
                                 \/ includes(toLowerCase(preferredLocations[i]), jobLocation)
               IN IF hasMatch THEN IntNum(1) ELSE Num(3, 10)

\* mutant: user.preferences.jobTypes without the "|| {}" default
calculateJobTypeMatch_NoDefault(u, j) ==
  IF ~u.preferences.present THEN Throw
  ELSE LET preferredTypes == OrEmpty(u.preferences.jobTypes)
       IN IF Len(preferredTypes) = 0 THEN Num(8, 10)
          ELSE IF j.type \in Range(preferredTypes) THEN IntNum(1) ELSE Num(1, 2)

calculateJobTypeMatch(u, j) ==
  LET preferredTypes ==
        IF u.preferences.present THEN OrEmpty(u.preferences.jobTypes) ELSE <<>>
  IN IF Len(preferredTypes) = 0 THEN Num(8, 10)
     ELSE IF j.type \in Range(preferredTypes) THEN IntNum(1) ELSE Num(1, 2)

\* the four weighted steps of calculateMatchScore, in the order of the code;
\* an exception raised by a sub-score ends the call
calculateMatchScore(u, j, today) ==
  LET skillsScore == calculateSkillsMatch(OrEmpty(u.skills), OrEmpty(j.requiredSkills))
      experienceScore == calculateExperienceMatch(u, j, today)
      locationScore == calculateLocationMatch(u, j)
      typeScore == calculateJobTypeMatch(u, j)
      totalScore == Add(Add(Add(Add(IntNum(0), Mul(skillsScore, Num(4, 10))),
                                Mul(experienceScore, Num(3, 10))),
                            Mul(locationScore, Num(2, 10))),
                        Mul(typeScore, Num(1, 10)))
      weightSum == Add(Add(Add(Add(IntNum(0), Num(4, 10)), Num(3, 10)), Num(2, 10)),
                       Num(1, 10))
  IN IF Throw \in {skillsScore, experienceScore, locationScore, typeScore} THEN Throw
     ELSE IF Lt(IntNum(0), weightSum) THEN Div(totalScore, weightSum) ELSE IntNum(0)


-----------------------------------------------------------------------------
(* Skill extractor *)

TECH_SKILLS ==
  <<
    <<"j","a","v","a","s","c","r","i","p","t">>, <<"p","y","t","h","o","n">>, <<"j","a","v","a">>,
    <<"r","e","a","c","t">>, <<"n","o","d","e",".","j","s">>, <<"e","x","p","r","e","s","s">>,
    <<"m","o","n","g","o","d","b">>, <<"s","q","l">>, <<"p","o","s","t","g","r","e","s","q","l">>,
    <<"m","y","s","q","l">>, <<"h","t","m","l">>, <<"c","s","s">>,
    <<"t","y","p","e","s","c","r","i","p","t">>, <<"a","n","g","u","l","a","r">>, <<"v","u","e",".","j","s">>,
    <<"p","h","p">>, <<"r","u","b","y">>, <<"g","o">>,
    <<"r","u","s","t">>, <<"c","+","+">>, <<"c","#">>,
    <<"s","w","i","f","t">>, <<"k","o","t","l","i","n">>, <<"f","l","u","t","t","e","r">>,
    <<"r","e","a","c","t"," ","n","a","t","i","v","e">>, <<"d","o","c","k","e","r">>, <<"k","u","b","e","r","n","e","t","e","s">>,
    <<"a","w","s">>, <<"a","z","u","r","e">>, <<"g","c","p">>,
    <<"g","i","t">>, <<"m","a","c","h","i","n","e"," ","l","e","a","r","n","i","n","g">>, <<"a","i">>,
    <<"b","l","o","c","k","c","h","a","i","n">>, <<"s","o","l","i","d","i","t","y">>, <<"w","e","b","3">>,
    <<"t","e","n","s","o","r","f","l","o","w">>, <<"p","y","t","o","r","c","h">>, <<"s","c","i","k","i","t","-","l","e","a","r","n">>,
    <<"p","a","n","d","a","s">>, <<"n","u","m","p","y">>
  >>

\* the five regular expressions of lines 39-43: \b(alts)REST\b with flags gi,
\* where REST is \.?js (dot, tail js), \.?js? (dot, tail j, optional s) or empty
patterns ==
  <<[alts |-> <<<<"r","e","a","c","t">>, <<"a","n","g","u","l","a","r">>, <<"v","u","e">>, <<"s","v","e","l","t","e">>, <<"e","m","b","e","r">>>>,
     dot |-> TRUE, tail |-> <<"j","s">>, optS |-> FALSE],
    [alts |-> <<<<"n","o","d","e">>, <<"e","x","p","r","e","s","s">>, <<"d","j","a","n","g","o">>, <<"f","l","a","s","k">>, <<"s","p","r","i","n","g">>, <<"l","a","r","a","v","e","l">>>>,
     dot |-> TRUE, tail |-> <<"j">>, optS |-> TRUE],
    [alts |-> <<<<"m","o","n","g","o","d","b">>, <<"p","o","s","t","g","r","e","s","q","l">>, <<"m","y","s","q","l">>, <<"r","e","d","i","s">>, <<"e","l","a","s","t","i","c","s","e","a","r","c","h">>>>,
     dot |-> FALSE, tail |-> <<>>, optS |-> FALSE],
    [alts |-> <<<<"d","o","c","k","e","r">>, <<"k","u","b","e","r","n","e","t","e","s">>, <<"j","e","n","k","i","n","s">>, <<"t","r","a","v","i","s">>, <<"c","i","r","c","l","e","c","i">>>>,
     dot |-> FALSE, tail |-> <<>>, optS |-> FALSE],
    [alts |-> <<<<"a","w","s">>, <<"a","z","u","r","e">>, <<"g","c","p">>, <<"h","e","r","o","k","u">>, <<"v","e","r","c","e","l">>, <<"n","e","t","l","i","f","y">>>>,
     dot |-> FALSE, tail |-> <<>>, optS |-> FALSE]>>

\* \b at position i of t: between t[i-1] and t[i], the ends counting as non-word
WordBoundary(t, i) ==
  LET before == i > 1 /\ i - 1 <= Len(t) /\ IsWordChar(t[i - 1])
      after == i >= 1 /\ i <= Len(t) /\ IsWordChar(t[i])
  IN before # after

\* the end (exclusive) of the match of alternative a of pattern p at position i
\* of the lower-cased text t with the optional dot and s taken or not; 0 if none
AltMatchEnd(p, t, i, a, takeDot, takeS) ==
  LET j0 == i + Len(a)
      j1 == IF takeDot THEN j0 + 1 ELSE j0
      j2 == j1 + Len(p.tail)
      j3 == IF takeS THEN j2 + 1 ELSE j2
      ok == /\ WordBoundary(t, i)
            /\ OccursAt(t, a, i)
            /\ takeDot => (p.dot /\ j0 <= Len(t) /\ t[j0] = ".")
            /\ OccursAt(t, p.tail, j1)
            /\ takeS => (p.optS /\ j2 <= Len(t) /\ t[j2] = "s")
            /\ WordBoundary(t, j3)
  IN IF ok THEN j3 ELSE 0

\* the backtracking order: alternatives left to right, each greedy quantifier
\* first taken and then not
MatchEndAt(p, t, i) ==
  LET tries == {<<k, d, g>> : k \in DOMAIN p.alts, d \in 0..1, g \in 0..1}
      end(x) == AltMatchEnd(p, t, i, p.alts[x[1]], x[2] = 0, x[3] = 0)
      good == {x \in tries : end(x) > 0}
      first == CHOOSE x \in good : \A y \in good :
                 \/ x[1] < y[1]
                 \/ x[1] = y[1] /\ x[2] < y[2]
                 \/ x[1] = y[1] /\ x[2] = y[2] /\ x[3] <= y[3]
  IN IF ~WordBoundary(t, i) \/ good = {} THEN 0 ELSE end(first)

\* String.prototype.match with a global pattern: the matched substrings of
\* str, left to right, each search resuming where the previous match ended
RECURSIVE MatchFrom(_, _, _, _)
MatchFrom(p, str, t, pos) ==
  LET starts == {i \in pos..Len(t) : MatchEndAt(p, t, i) > 0}
  IN IF starts = {} THEN <<>>
     ELSE LET i == CHOOSE x \in starts : \A y \in starts : x <= y
              e == MatchEndAt(p, t, i)
          IN <<SubSeq(str, i, e - 1)>> \o MatchFrom(p, str, t, e)

Matches(p, str) == MatchFrom(p, str, toLowerCase(str), 1)

\* match.toLowerCase().replace(/[^\w]/g, '')
Canonical(match) == SelectSeq(toLowerCase(match), IsWordChar)

\* the start positions of the matches of new RegExp(escapeRegExp(sk), 'gi'):
\* the literal sk, case-insensitively, without overlap
RECURSIVE OccurrencesFrom(_, _, _)
OccurrencesFrom(t, sk, pos) ==
  LET starts == {i \in pos..Len(t) : OccursAt(t, sk, i)}
  IN IF starts = {} \/ Len(sk) = 0 THEN 0
     ELSE LET i == CHOOSE x \in starts : \A y \in starts : x <= y
          IN 1 + OccurrencesFrom(t, sk, i + Len(sk))

Occurrences(str, sk) == OccurrencesFrom(toLowerCase(str), toLowerCase(sk), 1)

ContextWindow == 50

\* . of a regular expression without the s flag
IsLineTerminator(c) == c \in {"\n", "\r"}

\* the matches of (.{0,50}skill.{0,50}) with flags gi, joined by a space; occ
\* holds the positions of t at which the skill, of length n, occurs
RECURSIVE ContextFrom(_, _, _, _, _)
ContextFrom(str, t, occ, n, pos) ==
  LET \* the skill at s + k after k <= 50 characters of one line
      reach(s) == {o - s : o \in {x \in occ :
                     /\ x >= s
                     /\ x - s <= ContextWindow
                     /\ \A y \in s..(x - 1) : ~IsLineTerminator(t[y])}}
      starts == {s \in pos..Len(t) : reach(s) # {}}
  IN IF starts = {} THEN <<>>
     ELSE LET s == CHOOSE x \in starts : \A y \in starts : x <= y
              k == CHOOSE x \in reach(s) : \A y \in reach(s) : y <= x
              after == s + k + n
              more == {m \in 0..ContextWindow :
                         /\ after + m - 1 <= Len(t)
                         /\ \A x \in after..(after + m - 1) : ~IsLineTerminator(t[x])}
              m == CHOOSE x \in more : \A y \in more : y <= x
              rest == ContextFrom(str, t, occ, n, after + m)
          IN SubSeq(str, s, after + m - 1)
               \o (IF rest = <<>> THEN <<>> ELSE <<" ">> \o rest)

getSkillContext(str, sk) ==
  LET t == toLowerCase(str)
      occ == {i \in 1..Len(t) : OccursAt(t, toLowerCase(sk), i)}
  IN toLowerCase(ContextFrom(str, t, occ, Len(sk), 1))

\* mutant: the final Math.min(confidence, 1.0) is missing
calculateConfidence_NoClamp(str, sk) ==
  LET occurrences == Occurrences(str, sk)
      context == getSkillContext(str, sk)
      base == MathMin(Mul(IntNum(occurrences), Num(3, 10)), Num(9, 10))
      boosted1 == IF includes(context, <<"e","x","p","e","r","i","e","n","c","e">>) \/ includes(context, <<"y","e","a","r","s">>)
                    THEN Add(base, Num(2, 10)) ELSE base
  IN IF includes(context, <<"e","x","p","e","r","t">>) \/ includes(context, <<"a","d","v","a","n","c","e","d">>)
       THEN Add(boosted1, Num(1, 10)) ELSE boosted1

calculateConfidence(str, sk) ==
  LET occurrences == Occurrences(str, sk)
      context == getSkillContext(str, sk)
      base == MathMin(Mul(IntNum(occurrences), Num(3, 10)), Num(9, 10))
      boosted1 == IF includes(context, <<"e","x","p","e","r","i","e","n","c","e">>) \/ includes(context, <<"y","e","a","r","s">>)
                    THEN Add(base, Num(2, 10)) ELSE base
      boosted2 == IF includes(context, <<"e","x","p","e","r","t">>) \/ includes(context, <<"a","d","v","a","n","c","e","d">>)
                    THEN Add(boosted1, Num(1, 10)) ELSE boosted1
  IN MathMin(boosted2, IntNum(1))

SkillRecord(name, confidence) ==
  [name |-> name, level |-> "Intermediate", aiExtracted |-> TRUE,
   confidence |-> confidence]

\* lines 26-35: the dictionary entries 1..n that lower, the lower-cased text,
\* contains
RECURSIVE DictionaryPass(_, _, _)
DictionaryPass(str, lower, n) ==
  IF n = 0 THEN <<>>
  ELSE LET sk == TECH_SKILLS[n]
           earlier == DictionaryPass(str, lower, n - 1)
       IN IF includes(lower, sk)
            THEN Append(earlier, SkillRecord(sk, calculateConfidence(str, sk)))
            ELSE earlier

\* mutant: a match whose name is present overwrites the record
PushMatch_Overwrite(extractedSkills, match) ==
  LET sk == Canonical(match)
  IN IF \E i \in DOMAIN extractedSkills : extractedSkills[i].name = sk
       THEN [i \in DOMAIN extractedSkills |->
               IF extractedSkills[i].name = sk
                 THEN SkillRecord(sk, Num(8, 10)) ELSE extractedSkills[i]]
       ELSE Append(extractedSkills, SkillRecord(sk, Num(8, 10)))

\* lines 49-59: one match of a pattern
PushMatch(extractedSkills, match) ==
  LET sk == Canonical(match)
  IN IF \E i \in DOMAIN extractedSkills : extractedSkills[i].name = sk
       THEN extractedSkills
       ELSE Append(extractedSkills, SkillRecord(sk, Num(8, 10)))

RECURSIVE PushMatches(_, _)
PushMatches(extractedSkills, matches) ==
  IF matches = <<>> THEN extractedSkills
  ELSE PushMatches(PushMatch(extractedSkills, Head(matches)), Tail(matches))

\* lines 46-61: patterns 1..n applied in order
RECURSIVE PatternPass(_, _, _)
PatternPass(extractedSkills, str, n) ==
  IF n = 0 THEN extractedSkills
  ELSE PushMatches(PatternPass(extractedSkills, str, n - 1), Matches(patterns[n], str))

\* lines 64-66: keep the record at index i iff i is the first index with its name
RECURSIVE FilterFirst(_, _)
FilterFirst(self, n) ==
  IF n = 0 THEN <<>>
  ELSE LET findIndex == CHOOSE i \in 1..n :
                          /\ self[i].name = self[n].name
                          /\ \A j \in 1..(i - 1) : self[j].name # self[n].name
           kept == FilterFirst(self, n - 1)
       IN IF n = findIndex THEN Append(kept, self[n]) ELSE kept

UniqueSkillsOf(extractedSkills) == FilterFirst(extractedSkills, Len(extractedSkills))

\* mutant: an element moves in front of those of equal confidence too
RECURSIVE SortByConfidence_Unstable(_)
SortByConfidence_Unstable(s) ==
  IF s = <<>> THEN <<>>
  ELSE LET n == Len(s)
           sorted == SortByConfidence_Unstable(SubSeq(s, 1, n - 1))
           x == s[n]
           front == {i \in 0..Len(sorted) :
                       \A j \in 1..i : Lt(x.confidence, sorted[j].confidence)}
           at == CHOOSE i \in front : \A j \in front : j <= i
       IN SubSeq(sorted, 1, at) \o <<x>> \o SubSeq(sorted, at + 1, Len(sorted))

\* Array.prototype.sort with (a, b) => b.confidence - a.confidence: a stable
\* sort, an element moving in front of those the comparator puts after it
RECURSIVE SortByConfidence(_)
SortByConfidence(s) ==
  IF s = <<>> THEN <<>>
  ELSE LET n == Len(s)
           sorted == SortByConfidence(SubSeq(s, 1, n - 1))
           x == s[n]
           \* b.confidence - a.confidence <= 0: a stays in front of x
           front == {i \in 0..Len(sorted) :
                       \A j \in 1..i : ~Lt(sorted[j].confidence, x.confidence)}
           at == CHOOSE i \in front : \A j \in front : j <= i
       IN SubSeq(sorted, 1, at) \o <<x>> \o SubSeq(sorted, at + 1, Len(sorted))

\* mutant: every match is pushed and the result is not filtered
RECURSIVE AllMatches(_, _)
AllMatches(str, n) ==
  IF n = 0 THEN <<>> ELSE AllMatches(str, n - 1) \o Matches(patterns[n], str)

extractSkillsFromText_KeepAll(str) ==
  LET ms == AllMatches(str, Len(patterns))
  IN SortByConfidence(
       DictionaryPass(str, toLowerCase(str), Len(TECH_SKILLS))
         \o [i \in DOMAIN ms |-> SkillRecord(Canonical(ms[i]), Num(8, 10))])

ExtractedSkills(str) ==
  PatternPass(DictionaryPass(str, toLowerCase(str), Len(TECH_SKILLS)), str, Len(patterns))

extractSkillsFromText(str) == SortByConfidence(UniqueSkillsOf(ExtractedSkills(str)))


-----------------------------------------------------------------------------
(* Inputs of the match scorer *)

MaxSkills == 2
MaxReq == 2
MaxExp == 2
MaxLocs == 2

NowDays == {20000, 20100}

UserSkillNames == {<<"G","o">>, <<"g","o","l","a","n","g">>, <<"S","Q","L">>}
ReqSkillNames == {<<"g","o">>, <<"G","O">>, <<"s","q","l">>}

UserSkillRecords == [name : UserSkillNames]
RequiredSkillRecords == [name : ReqSkillNames, mandatory : BOOLEAN]

\* experience entries lasting 1, 2, 3, 6 and 150 years, 400 days, one that
\* starts in the future, and entries with an invalid or missing date
ExperienceEntries(today) ==
  {[startDate |-> Date(today - y * DaysPerYear), endDate |-> AbsentDate] :
      y \in {1, 2, 6, 150, -1}}
  \cup {[startDate |-> Date(1000), endDate |-> Date(1000 + 3 * DaysPerYear)],
        [startDate |-> Date(1000), endDate |-> Date(1400)],
        [startDate |-> InvalidDate, endDate |-> AbsentDate],
        [startDate |-> AbsentDate, endDate |-> Date(1400)],
        [startDate |-> Date(1000), endDate |-> InvalidDate]}

ExperienceLevels ==
  {"entry", "mid", "senior", "executive", "lead", "undefined", "constructor"}

JobLocations == {None, Some(<<"A","u","s","t","i","n",","," ","T","X">>), Some(<<"T","X">>)}
PreferredLocationNames == {<<"a","u","s","t","i","n">>, <<"A","u","s","t","i","n",","," ","T","X",","," ","U","S","A">>, <<"B","o","s","t","o","n">>, <<"t","x">>}
JobTypes == {"full-time", "contract"}

Preferences(locations, jobTypes) ==
  [present |-> TRUE, locations |-> locations, jobTypes |-> jobTypes]
NoPreferences == [present |-> FALSE, locations |-> None, jobTypes |-> None]

DefaultUser == [skills |-> None, experience |-> None, preferences |-> NoPreferences]
DefaultJob ==
  [requiredSkills |-> None, experienceLevel |-> "mid", remote |-> FALSE,
   location |-> Some(<<"A","u","s","t","i","n",","," ","T","X">>), type |-> "full-time"]

\* no call has been made: there is no result yet
NoScore == [k |-> "none", n |-> 0, d |-> 1]

Idle ==
  /\ op = "idle"
  /\ score = NoScore
  /\ skills = <<>>
  /\ text = <<>>
  /\ skill = <<>>

InitSkills ==
  /\ Idle
  /\ now \in NowDays
  /\ \E us \in SeqsUpTo(UserSkillRecords, MaxSkills) :
       user = [DefaultUser EXCEPT !.skills = Some(us)]
  /\ \E rs \in SeqsUpTo(RequiredSkillRecords, MaxReq) :
       job = [DefaultJob EXCEPT !.requiredSkills = Some(rs)]

InitExperience ==
  /\ Idle
  /\ now \in NowDays
  /\ \E e \in {None} \cup {Some(x) : x \in SeqsUpTo(ExperienceEntries(now), MaxExp)} :
       user = [DefaultUser EXCEPT !.experience = e]
  /\ \E l \in ExperienceLevels : job = [DefaultJob EXCEPT !.experienceLevel = l]

InitLocation ==
  /\ Idle
  /\ now \in NowDays
  /\ \E p \in {NoPreferences, Preferences(None, None)}
              \cup {Preferences(Some(x), None) :
                      x \in SeqsUpTo(PreferredLocationNames, MaxLocs)} :
       user = [DefaultUser EXCEPT !.preferences = p]
  /\ \E r \in BOOLEAN, l \in JobLocations :
       job = [DefaultJob EXCEPT !.remote = r, !.location = l]

\* a cross-section of whole profiles and postings for calculateMatchScore
ScoreUserSkills == {None, Some(<<>>), Some(<<[name |-> <<"G","o">>]>>)}
ScoreRequiredSkills ==
  {None, Some(<<[name |-> <<"g","o">>, mandatory |-> TRUE]>>),
   Some(<<[name |-> <<"g","o">>, mandatory |-> TRUE], [name |-> <<"s","q","l">>, mandatory |-> FALSE]>>)}
ScoreExperience(today) ==
  {None, Some(<<>>),
   Some(<<[startDate |-> Date(today - 3 * DaysPerYear), endDate |-> AbsentDate]>>),
   Some(<<[startDate |-> Date(today - 6 * DaysPerYear), endDate |-> AbsentDate],
          [startDate |-> Date(today - 6 * DaysPerYear), endDate |-> AbsentDate]>>),
   Some(<<[startDate |-> InvalidDate, endDate |-> AbsentDate]>>)}
ScorePreferences ==
  {NoPreferences, Preferences(None, None),
   Preferences(Some(<<<<"t","x">>>>), Some(<<"full-time">>)),
   Preferences(Some(<<<<"B","o","s","t","o","n">>>>), Some(<<"contract">>))}

InitScore ==
  /\ Idle
  /\ now \in NowDays
  /\ \E s \in ScoreUserSkills, e \in ScoreExperience(now), p \in ScorePreferences :
       user = [skills |-> s, experience |-> e, preferences |-> p]
  /\ \E rs \in ScoreRequiredSkills, l \in ExperienceLevels, r \in BOOLEAN,
        loc \in {None, Some(<<"A","u","s","t","i","n",","," ","T","X">>)} :
       job = [requiredSkills |-> rs, experienceLevel |-> l, remote |-> r,
              location |-> loc, type |-> "full-time"]

-----------------------------------------------------------------------------
(* Calls *)

CallSkillsMatch ==
  /\ op = "idle"
  /\ op' = "calculateSkillsMatch"
  /\ score' = calculateSkillsMatch(OrEmpty(user.skills), OrEmpty(job.requiredSkills))
  /\ UNCHANGED <<text, skill, user, job, now, skills>>

CallExperienceMatch ==
  /\ op = "idle"
  /\ op' = "calculateExperienceMatch"
  /\ score' = calculateExperienceMatch(user, job, now)
  /\ UNCHANGED <<text, skill, user, job, now, skills>>

CallLocationMatch ==
  /\ op = "idle"
  /\ op' = "calculateLocationMatch"
  /\ score' = calculateLocationMatch(user, job)
  /\ UNCHANGED <<text, skill, user, job, now, skills>>

CallMatchScore ==
  /\ op = "idle"
  /\ op' = "calculateMatchScore"
  /\ score' = calculateMatchScore(user, job, now)
  /\ UNCHANGED <<text, skill, user, job, now, skills>>

SpecSkills == InitSkills /\ [][CallSkillsMatch]_vars
SpecExperience == InitExperience /\ [][CallExperienceMatch]_vars
SpecLocation == InitLocation /\ [][CallLocationMatch]_vars
SpecScore == InitScore /\ [][CallMatchScore]_vars


-----------------------------------------------------------------------------
(* Inputs of the skill extractor *)

MaxWords == 2

Vocabulary ==
  {<<"R","e","a","c","t",".","j","s">>, <<"M","o","n","g","o","D","B">>, <<"r","e","d","i","s">>, <<"R","E","D","I","S",",">>, <<"n","o","d","e",".","j","s">>, <<"N","o","d","e","J","S">>,
   <<"y","e","a","r","s">>, <<"e","x","p","e","r","t">>, <<"a","w","s","/","A","W","S">>, <<"j","a","v","a","s","c","r","i","p","t">>}

RECURSIVE Join(_)
Join(words) ==
  IF words = <<>> THEN <<>>
  ELSE IF Len(words) = 1 THEN words[1]
  ELSE words[1] \o <<" ">> \o Join(Tail(words))

Texts == {Join(ws) : ws \in SeqsUpTo(Vocabulary, MaxWords)}

\* "years" more than a context window away from the word before it
FarYears == [i \in 1..ContextWindow |-> "-"] \o <<"y","e","a","r","s">>

ConfidenceVocabulary ==
  {<<"a","w","s","/","A","W","S">>, <<"A","W","S"," ","a","w","s"," ","A","w","s">>, <<"c","+","+">>, <<"y","e","a","r","s">>, <<"e","x","p","e","r","i","e","n","c","e">>, <<"e","x","p","e","r","t">>,
   <<"a","d","v","a","n","c","e","d"," ","y","e","a","r","s">>, <<"\n">>, FarYears}

ConfidenceTexts == {Join(ws) : ws \in SeqsUpTo(ConfidenceVocabulary, MaxWords)}

ConfidenceSkills == {<<"a","w","s">>, <<"c","+","+">>}

InitExtract ==
  /\ Idle
  /\ now = 20000
  /\ user = DefaultUser
  /\ job = DefaultJob

\* the inputs are drawn when the call is made
CallExtract ==
  /\ op = "idle"
  /\ \E t \in Texts :
       /\ text' = t
       /\ skills' = extractSkillsFromText(t)
  /\ op' = "extractSkillsFromText"
  /\ UNCHANGED <<skill, user, job, now, score>>

CallConfidence ==
  /\ op = "idle"
  /\ \E t \in ConfidenceTexts, sk \in ConfidenceSkills :
       /\ text' = t
       /\ skill' = sk
       /\ score' = calculateConfidence(t, sk)
  /\ op' = "calculateConfidence"
  /\ UNCHANGED <<user, job, now, skills>>

SpecExtract == InitExtract /\ [][CallExtract]_vars
SpecConfidence == InitExtract /\ [][CallConfidence]_vars

\* every exported function and calculateConfidence, called on one profile
Init == InitExtract

Next ==
  \/ CallExtract
  \/ CallConfidence
  \/ CallSkillsMatch
  \/ CallExperienceMatch
  \/ CallLocationMatch
  \/ CallMatchScore

Spec == Init /\ [][Next]_vars


-----------------------------------------------------------------------------
(* Claims about the skill extractor *)

Extracted == op = "extractSkillsFromText"

\* the names the dictionary pass finds in the text
DictionaryNames == {sk \in Range(TECH_SKILLS) : includes(toLowerCase(text), sk)}

\* the canonical names of all matches of the five patterns
MatchNames ==
  UNION {{Canonical(m) : m \in Range(Matches(patterns[p], text))} : p \in DOMAIN patterns}

RecordsNamed(name) == {i \in DOMAIN skills : skills[i].name = name}

\* C2: the sequence returned by extractSkillsFromText holds no two records
\* with the same name
C2_NoDuplicateNames ==
  Extracted =>
    \A i, j \in DOMAIN skills : skills[i].name = skills[j].name => i = j

\* a result in which a name came from the dictionary and from a pattern, and
\* another name from two matches
C2_Witness ==
  /\ Extracted
  /\ MatchNames \cap DictionaryNames # {}
  /\ \E p \in DOMAIN patterns :
       LET ms == Matches(patterns[p], text)
       IN \E a, b \in DOMAIN ms : a # b /\ Canonical(ms[a]) = Canonical(ms[b])

\* the position of a name in the order of first encounter: dictionary entries
\* in dictionary order, then matches in pattern-then-match order
EncounterOrder == UniqueSkillsOf(ExtractedSkills(text))

\* C3: the result is ordered by confidence descending and records of equal
\* confidence keep the order in which they were first encountered
C3_SortedStable ==
  Extracted =>
    LET order == EncounterOrder
        encounter == [i \in DOMAIN skills |->
                        CHOOSE k \in DOMAIN order : order[k].name = skills[i].name]
    IN /\ Len(skills) = Len(order)
       /\ Range(skills) = Range(order)
       /\ \A i, j \in DOMAIN skills :
            i < j =>
              /\ Le(skills[j].confidence, skills[i].confidence)
              /\ skills[i].confidence = skills[j].confidence
                   => encounter[i] < encounter[j]

\* a result the sort has reordered and that holds a tie
C3_Witness ==
  /\ Extracted
  /\ skills # EncounterOrder
  /\ \E i, j \in DOMAIN skills : i < j /\ skills[i].confidence = skills[j].confidence

\* C9: a dictionary name found in the text has exactly one record, with the
\* confidence of calculateConfidence; a match whose canonical name the
\* dictionary pass did not add has exactly one record, with confidence 0.8;
\* there are no other records
C9_DictionaryWins ==
  Extracted =>
    LET fromDictionary == DictionaryNames
        fromPatterns == MatchNames
    IN /\ \A sk \in fromDictionary :
            /\ Cardinality(RecordsNamed(sk)) = 1
            /\ \A i \in RecordsNamed(sk) :
                 skills[i].confidence = calculateConfidence(text, sk)
       /\ \A sk \in fromPatterns \ fromDictionary :
            /\ Cardinality(RecordsNamed(sk)) = 1
            /\ \A i \in RecordsNamed(sk) : skills[i].confidence = Num(8, 10)
       /\ \A i \in DOMAIN skills : skills[i].name \in fromDictionary \cup fromPatterns

\* a pattern matched a name the dictionary pass had added with a confidence
\* other than 0.8, and matched a name it had not added
C9_Witness ==
  /\ Extracted
  /\ \E sk \in MatchNames \cap DictionaryNames :
       calculateConfidence(text, sk) # Num(8, 10)
  /\ MatchNames \ DictionaryNames # {}

-----------------------------------------------------------------------------
(* Claims about calculateConfidence *)

Min(a, b) == IF a < b THEN a ELSE b

\* the two boosts of a text for the skill, in tenths
ContextBoosts(str, sk) ==
  LET context == getSkillContext(str, sk)
  IN <<IF includes(context, <<"e","x","p","e","r","i","e","n","c","e">>) \/ includes(context, <<"y","e","a","r","s">>) THEN 2 ELSE 0,
       IF includes(context, <<"e","x","p","e","r","t">>) \/ includes(context, <<"a","d","v","a","n","c","e","d">>) THEN 1 ELSE 0>>

\* C10: calculateConfidence is min(1, min(0.3 * occurrences, 0.9) + boosts);
\* it never exceeds 1, is 0 only without occurrence and boost, and with the
\* boosts unchanged does not fall when the occurrences grow
C10_Confidence ==
  op = "calculateConfidence" =>
    LET occurrences == Occurrences(text, skill)
        boosts == ContextBoosts(text, skill)
    IN /\ score = Num(Min(10, Min(3 * occurrences, 9) + boosts[1] + boosts[2]), 10)
       /\ Le(score, IntNum(1))
       /\ score = IntNum(0) => (occurrences = 0 /\ boosts = <<0, 0>>)
       /\ \A w \in ConfidenceVocabulary :
            LET longer == text \o <<" ">> \o w
            IN (ContextBoosts(longer, skill) = boosts
                  /\ Occurrences(longer, skill) >= occurrences)
                 => Le(score, calculateConfidence(longer, skill))

\* three occurrences with both boosts: 0.9 + 0.2 + 0.1 is clamped to 1
C10_Witness ==
  /\ op = "calculateConfidence"
  /\ Occurrences(text, skill) >= 3
  /\ ContextBoosts(text, skill) = <<2, 1>>
  /\ score = IntNum(1)


-----------------------------------------------------------------------------
(* Claims about the match scorer *)

EqualIgnoringCase(a, b) ==
  Len(a) = Len(b) /\ \A i \in DOMAIN a : LowerChar(a[i]) = LowerChar(b[i])

InUnitInterval(x) == IsNum(x) /\ 0 <= x.n /\ x.n <= x.d

\* the required skills whose name some user skill has
MatchedRequirements ==
  LET userSkills == OrEmpty(user.skills)
      requiredSkills == OrEmpty(job.requiredSkills)
  IN {i \in DOMAIN requiredSkills :
        \E k \in DOMAIN userSkills :
          EqualIgnoringCase(requiredSkills[i].name, userSkills[k].name)}

RECURSIVE RequirementWeight(_)
RequirementWeight(indices) ==
  IF indices = {} THEN 0
  ELSE LET i == CHOOSE x \in indices : TRUE
       IN (IF job.requiredSkills.v[i].mandatory THEN 2 ELSE 1)
            + RequirementWeight(indices \ {i})

\* C4: calculateSkillsMatch is 0 when either sequence is empty and otherwise
\* the weight (2 mandatory, 1 not) of the required skills whose name equals a
\* user skill's name ignoring case, over the weight of all required skills; it
\* lies in [0,1] and is 1 exactly when every required skill is matched
C4_SkillsMatch ==
  op = "calculateSkillsMatch" =>
    LET userSkills == OrEmpty(user.skills)
        requiredSkills == OrEmpty(job.requiredSkills)
        matched == MatchedRequirements
    IN /\ InUnitInterval(score)
       /\ (userSkills = <<>> \/ requiredSkills = <<>>) => score = IntNum(0)
       /\ (userSkills # <<>> /\ requiredSkills # <<>>) =>
            /\ score.n * RequirementWeight(DOMAIN requiredSkills)
                 = score.d * RequirementWeight(matched)
            /\ score = IntNum(1) <=> matched = DOMAIN requiredSkills

\* a mandatory requirement that a user skill contains without equalling it
\* stays unmatched, and an optional one is matched in another case
C4_Witness ==
  /\ op = "calculateSkillsMatch"
  /\ score = Num(1, 3)
  /\ \E i \in DOMAIN job.requiredSkills.v :
       /\ i \notin MatchedRequirements
       /\ \E k \in DOMAIN user.skills.v :
            includes(toLowerCase(user.skills.v[k].name),
                     toLowerCase(job.requiredSkills.v[i].name))
  /\ \E i \in MatchedRequirements :
       \A k \in DOMAIN user.skills.v :
         user.skills.v[k].name # job.requiredSkills.v[i].name

Max(a, b) == IF a < b THEN b ELSE a

ValidEntry(exp) == exp.startDate.k = "date" /\ exp.endDate.k \in {"date", "absent"}

\* the days of an entry, floored at 0
EntryDays(exp) ==
  Max(0, (IF exp.endDate.k = "absent" THEN now ELSE exp.endDate.t) - exp.startDate.t)

RECURSIVE SumDays(_)
SumDays(entries) ==
  IF entries = <<>> THEN 0 ELSE EntryDays(Head(entries)) + SumDays(Tail(entries))

ClaimedRange ==
  CASE job.experienceLevel = "entry" -> <<0, 2>>
    [] job.experienceLevel = "mid" -> <<2, 5>>
    [] job.experienceLevel = "senior" -> <<5, 10>>
    [] job.experienceLevel = "executive" -> <<10, 100>>
    [] OTHER -> <<0, 100>>

\* the result the claim states for entries with valid dates
ExperienceAsClaimed ==
  LET totalDays == SumDays(user.experience.v)
      minDays == ClaimedRange[1] * DaysPerYear
      maxDays == ClaimedRange[2] * DaysPerYear
  IN /\ IsNum(score)
     /\ (minDays <= totalDays /\ totalDays <= maxDays) => score = IntNum(1)
     /\ totalDays < minDays => (minDays # 0 /\ score = Num(totalDays, minDays))
     /\ totalDays > maxDays =>
          /\ score = MathMax(Num(7, 10), Num(2 * maxDays - totalDays, maxDays))
          /\ Le(Num(7, 10), score)

HasValidExperience ==
  /\ op = "calculateExperienceMatch"
  /\ Len(OrEmpty(user.experience)) > 0
  /\ \A i \in DOMAIN user.experience.v : ValidEntry(user.experience.v[i])

\* C5: with at least one experience entry, calculateExperienceMatch is 1 inside
\* the range of the level (bounds inclusive; any other level [0,100]),
\* totalYears/minYears below it and max(0.7, 1 - (totalYears - maxYears)/maxYears)
\* above it
C5_ExperienceMatch == HasValidExperience => ExperienceAsClaimed

\* the same for the levels that are no inherited property of experienceRanges
C5_OwnOrUnknownLevel ==
  (HasValidExperience /\ job.experienceLevel \notin ObjectPrototypeKeys)
    => ExperienceAsClaimed

\* C6: calculateLocationMatch is 1.0 whenever job.remote is true, whatever the
\* preferences and the location are, an absent location included
C6_RemoteIsOne ==
  (op = "calculateLocationMatch" /\ job.remote) => score = IntNum(1)

\* a remote job without location, for a user whose preferred locations do not
\* match anything
C6_Witness ==
  /\ op = "calculateLocationMatch"
  /\ job.remote
  /\ ~job.location.present
  /\ user.preferences.present
  /\ Len(OrEmpty(user.preferences.locations)) > 0
  /\ score = IntNum(1)

NoOptionalFields ==
  /\ ~user.skills.present
  /\ ~user.experience.present
  /\ ~user.preferences.present
  /\ ~job.requiredSkills.present

\* C7: without user.skills, user.experience, user.preferences and
\* job.requiredSkills, calculateMatchScore raises nothing and its sub-scores
\* are 0, 0.5, 0.5 (1.0 for a remote job) and 0.8, job.location absent or not
C7_MissingFields ==
  (op = "calculateMatchScore" /\ NoOptionalFields) =>
    /\ score # Throw
    /\ calculateSkillsMatch(OrEmpty(user.skills), OrEmpty(job.requiredSkills)) = IntNum(0)
    /\ calculateExperienceMatch(user, job, now) = Num(1, 2)
    /\ calculateLocationMatch(user, job) = (IF job.remote THEN IntNum(1) ELSE Num(1, 2))
    /\ calculateJobTypeMatch(user, job) = Num(8, 10)
    /\ score = (IF job.remote THEN Num(43, 100) ELSE Num(33, 100))

\* such a call for a job that is not remote and has no location
C7_Witness ==
  /\ op = "calculateMatchScore"
  /\ NoOptionalFields
  /\ ~job.remote
  /\ ~job.location.present
  /\ score = Num(33, 100)

\* C8: a call of calculateMatchScore returns a score in [0,1] or signals a
\* precondition violation
C8_ValidOrSignalled ==
  op = "calculateMatchScore" => (score = Throw \/ InUnitInterval(score))

\* C1: calculateMatchScore returns 0.4 skills + 0.3 experience + 0.2 location
\* + 0.1 jobType, and the result lies in [0,1]
WeightedSum ==
  LET s == calculateSkillsMatch(OrEmpty(user.skills), OrEmpty(job.requiredSkills))
      e == calculateExperienceMatch(user, job, now)
      l == calculateLocationMatch(user, job)
      t == calculateJobTypeMatch(user, job)
  IN Num(4 * s.n * e.d * l.d * t.d + 3 * e.n * s.d * l.d * t.d
           + 2 * l.n * s.d * e.d * t.d + t.n * s.d * e.d * l.d,
         10 * s.d * e.d * l.d * t.d)

C1_WeightedSum ==
  (op = "calculateMatchScore" /\ score # Throw) =>
    /\ InUnitInterval(score)
    /\ score = WeightedSum

\* the same for profiles whose experience dates are all valid
C1_ValidDates ==
  (/\ op = "calculateMatchScore"
   /\ score # Throw
   /\ \A i \in DOMAIN OrEmpty(user.experience) : ValidEntry(user.experience.v[i])) =>
    /\ InUnitInterval(score)
    /\ score = WeightedSum


=============================================================================
